---- MODULE Spec2Model ----
(***************************************************************************)
(* A model of getebook: the tag-event state machine EbookParser            *)
(* (src/getebook/__init__.py) together with the element tree, the pattern  *)
(* matcher, the quirks registry, the table of contents and the parts of    *)
(* EpubBuilder (src/getebook/epub.py) that the parser drives.              *)
(*                                                                         *)
(* Python values are modelled as follows.  A str is a sequence of one      *)
(* character strings.  None is the string None where the other values are  *)
(* strings, and the empty sequence where they are not (<<v>> is "set").    *)
(* A missing attribute of an object (AttributeError on read) is the empty  *)
(* sequence as well.  An Element is a record with the field tag; a str     *)
(* child of an Element is the record [str |-> s].                          *)
(***************************************************************************)
EXTENDS Integers, Sequences, FiniteSets, TLC

VARIABLES
    parser,     \* the EbookParser instance: its fields
    builder,    \* the EpubBuilder instance: its fields
    raised,     \* the exception that left the running call, or None
    log,        \* history: the calls the parser made on the builder
    nev,        \* history: number of tokenizer events fed so far
    lastEv,     \* history: the last event and what its handler did
    region,     \* history: where the tokenizer is relative to the root element
    doc,        \* history: the elements the document has open, as written
    crawl,      \* getebook: the path of its loop, where the loop is, and
                \* history of the anchors of the document being fed
    script,     \* the events of the document that is fed event by event
    registry,   \* a Quirks instance while rules are registered with it
    toc_calls,  \* history: the begin_subsections calls that are not ended
    call        \* one call of _Pattern.match: pattern, element and result

vars == <<parser, builder, raised, log, nev, lastEv, region, doc, crawl,
          script, registry, toc_calls, call>>

\* the variables no tokenizer event touches
others == <<script, registry, toc_calls, call>>

None == "None"
NoAttr == "<no attribute>"

(***************************************************************************)
(* Module constants of getebook                                            *)
(***************************************************************************)
headings == {"h1", "h2", "h3", "h4", "h5", "h6"}
headings_and_p == {"p", "h1", "h2", "h3", "h4", "h5", "h6"}
void_elems == {"area", "base", "br", "col", "command", "embed", "hr", "img",
               "input"}
html5_only == {"article", "aside", "figure", "footer", "header", "nav",
               "section", "audio", "source", "video", "canvas", "command",
               "datagrid", "datalist", "details", "output", "progress", "rp",
               "rt", "ruby", "dialog", "hgroup", "mark", "meter", "time"}

(***************************************************************************)
(* Strings                                                                 *)
(***************************************************************************)
Last(s) == s[Len(s)]
Front(s) == SubSeq(s, 1, Len(s) - 1)

isspace(c) == c \in {" ", "\n"}

RECURSIVE lstrip(_)
lstrip(s) == IF s # <<>> /\ isspace(Head(s)) THEN lstrip(Tail(s)) ELSE s

RECURSIVE rstrip(_)
rstrip(s) == IF s # <<>> /\ isspace(Last(s)) THEN rstrip(Front(s)) ELSE s

strip(s) == rstrip(lstrip(s))

\* str.splitlines for the line boundary "\n"
RECURSIVE splitlines_from(_, _)
splitlines_from(s, line) ==
    IF s = <<>> THEN (IF line = <<>> THEN <<>> ELSE <<line>>)
    ELSE IF Head(s) = "\n" THEN <<line>> \o splitlines_from(Tail(s), <<>>)
    ELSE splitlines_from(Tail(s), Append(line, Head(s)))

splitlines(s) == splitlines_from(s, <<>>)

RECURSIVE join_lines(_)
join_lines(ls) ==
    IF ls = <<>> THEN <<>>
    ELSE IF Len(ls) = 1 THEN ls[1]
    ELSE ls[1] \o <<"\n">> \o join_lines(Tail(ls))

\* a compiled regular expression is modelled by a literal: re.match succeeds
\* when the literal occurs at the beginning of the string
re_compile(lit) == [lit |-> lit]

re_match(re, s) ==
    /\ Len(s) >= Len(re.lit)
    /\ SubSeq(s, 1, Len(re.lit)) = re.lit

(***************************************************************************)
(* Element                                                                 *)
(***************************************************************************)
IsElem(x) == "tag" \in DOMAIN x

\* born is a history field: the region the tokenizer was in at creation
\* born and scan are history: where the tokenizer was when the element was
\* made, and whether its start tag started the scan for the next link
Element(tag, attrs, born) ==
    [tag |-> tag, attrs |-> attrs, children |-> <<>>, text_len |-> 0,
     born |-> born, scan |-> FALSE]

Attrs(class, href) == [class |-> class, id |-> NoAttr, href |-> href]

\* a variant of add_child that makes the new child the first
add_child_first(self, elem) ==
    [self EXCEPT !.text_len = @ + (IF IsElem(elem) THEN elem.text_len
                                                  ELSE Len(elem.str)),
                 !.children = <<elem>> \o @]

add_child(self, elem) ==
    [self EXCEPT !.text_len = @ + (IF IsElem(elem) THEN elem.text_len
                                                  ELSE Len(elem.str)),
                 !.children = Append(@, elem)]

RECURSIVE text(_)
RECURSIVE text_of_children(_)
text(elem) ==
    IF ~IsElem(elem) THEN elem.str
    ELSE (IF elem.tag = "br" THEN <<"\n">> ELSE <<>>)
         \o text_of_children(elem.children)
text_of_children(cs) ==
    IF cs = <<>> THEN <<>> ELSE text(Head(cs)) \o text_of_children(Tail(cs))

(***************************************************************************)
(* _Pattern                                                                *)
(***************************************************************************)
\* tag, cls, id: <<>> or <<set>>; txt_re: <<>> or <<regex>>; lim: <<>> or <<n>>
Pattern(tag, class_val, id_val, text_re, char_lim) ==
    [tag |-> IF tag = <<>> \/ tag = <<{}>> THEN <<>> ELSE tag,
     cls |-> IF class_val = <<>> \/ class_val = <<{}>> THEN <<>> ELSE class_val,
     id |-> IF id_val = <<>> \/ id_val = <<{}>> THEN <<>> ELSE id_val,
     txt_re |-> IF text_re = <<>> \/ text_re = <<(<<>>)>> THEN <<>>
                ELSE <<re_compile(text_re[1])>>,
     lim |-> char_lim]

match_starttag(self, elem) ==
    IF self.tag # <<>> /\ elem.tag \notin self.tag[1] THEN FALSE
    ELSE IF self.cls # <<>>
            /\ (elem.attrs.class = NoAttr \/ elem.attrs.class \notin self.cls[1])
         THEN FALSE
    ELSE IF self.id # <<>>
            /\ (elem.attrs.id = NoAttr \/ elem.attrs.id \notin self.id[1])
         THEN FALSE
    ELSE TRUE

match(self, elem) ==
    IF self.lim # <<>> /\ self.lim[1] # 0 /\ elem.text_len > self.lim[1]
    THEN FALSE
    ELSE IF ~match_starttag(self, elem) THEN FALSE
    ELSE IF self.txt_re # <<>> /\ ~re_match(self.txt_re[1], text(elem))
         THEN FALSE
    ELSE TRUE

(***************************************************************************)
(* Quirks: the registry the parser is configured with.  Quirks() installs  *)
(* the default skip rule; one false-heading rule (class fh) and one        *)
(* paragraph-heading rule (class ph) are registered.                       *)
(***************************************************************************)
DefaultCharLim == 20

quirks ==
    [false_h |-> << Pattern(<<headings>>, <<{"fh"}>>, <<>>, <<>>, <<>>) >>,
     par_h |-> << Pattern(<<{"p"}>>, <<{"ph"}>>, <<>>, <<>>,
                          <<DefaultCharLim>>) >>,
     skip_elem |-> << Pattern(<<html5_only \cup {"script"}>>, <<>>, <<>>,
                              <<>>, <<>>) >>]

\* Quirks(): no false-heading rule, no paragraph-heading rule, the default
\* skip rule
Quirks == [quirks EXCEPT !.false_h = <<>>, !.par_h = <<>>]

\* 'h%d' % level
h_tag(level) == <<"h1", "h2", "h3", "h4", "h5", "h6">>[level]

\* Quirks.false_heading(class_val, id_val, text_re, level); level is <<>>
\* for None.  The instance after the call and the exception raised.
quirks_false_heading(self, class_val, id_val, text_re, level) ==
    IF level = <<>> \/ level[1] = 0
    THEN [q |-> [self EXCEPT !.false_h =
                     Append(@, Pattern(<<headings>>, class_val, id_val,
                                       text_re, <<>>))],
          raised |-> None]
    ELSE IF level[1] >= 1 /\ level[1] <= 6
    THEN [q |-> [self EXCEPT !.false_h =
                     Append(@, Pattern(<<{h_tag(level[1])}>>, class_val,
                                       id_val, text_re, <<>>))],
          raised |-> None]
    ELSE [q |-> self, raised |-> "ValueError"]

any_match(ps, elem) == \E k \in 1..Len(ps) : match(ps[k], elem)

test_false_heading(elem) == any_match(quirks.false_h, elem)

test_par_heading(elem) == any_match(quirks.par_h, elem)

\* a variant of test_skip that skips nothing
test_skip_nothing(elem) == FALSE

test_skip(elem) == any_match(quirks.skip_elem, elem)

\* Quirks(noscript, nohtml5): skip_elem is assigned only when one of the two
\* is true; NoAttr stands for the attribute that was never assigned.  args
\* is history: the arguments of the constructor.
Quirks_init(noscript, nohtml5) ==
    LET skiptags == (IF nohtml5 THEN html5_only ELSE {})
                    \cup (IF noscript THEN {"script"} ELSE {})
    IN [false_h |-> <<>>, par_h |-> <<>>,
        skip_elem |-> IF skiptags # {}
                      THEN << Pattern(<<skiptags>>, <<>>, <<>>, <<>>, <<>>) >>
                      ELSE NoAttr,
        args |-> [noscript |-> noscript, nohtml5 |-> nohtml5]]

\* Quirks.skip(tag, class_val, id_val, text_re, char_lim): the instance
\* after the call and the exception raised; self.skip_elem.append raises
\* AttributeError when the attribute was never assigned
quirks_skip(self, tag, class_val, id_val, text_re, char_lim) ==
    LET tags == IF tag = <<{"h*"}>> THEN <<headings>> ELSE tag
    IN IF self.skip_elem = NoAttr
       THEN [q |-> self, raised |-> "AttributeError"]
       ELSE [q |-> [self EXCEPT !.skip_elem =
                        Append(@, Pattern(tags, class_val, id_val, text_re,
                                          char_lim))],
             raised |-> None]

\* Quirks.test_skip(elem) of an instance: the value returned (<<>> when the
\* call raises) and the exception raised
quirks_test_skip(self, elem) ==
    IF self.skip_elem = NoAttr
    THEN [ret |-> <<>>, raised |-> "AttributeError"]
    ELSE [ret |-> <<any_match(self.skip_elem, elem)>>, raised |-> None]

(***************************************************************************)
(* TOC.  The entries are kept in creation order; parent is the index of    *)
(* the owning entry, 0 for the TOC object itself; the subsections of a     *)
(* node are the entries naming it as parent, in index order.               *)
(***************************************************************************)
TOC ==
    [entries |-> <<>>, new_entries_at |-> 0, depth |-> 1, max_depth |-> 1,
     entry_count |-> 0]

\* a variant of new_entry that does not count the entry
new_entry_uncounted(self, txt, target) ==
    [self EXCEPT
        !.max_depth = IF self.depth > @ THEN self.depth ELSE @,
        !.entries = Append(@, [text |-> txt, target |-> target,
                               no |-> self.entry_count,
                               parent |-> self.new_entries_at])]

new_entry(self, txt, target) ==
    [self EXCEPT
        !.max_depth = IF self.depth > @ THEN self.depth ELSE @,
        !.entries = Append(@, [text |-> txt, target |-> target,
                               no |-> self.entry_count,
                               parent |-> self.new_entries_at]),
        !.entry_count = @ + 1]

\* self.entries of the node at: the indices of its entries
entries_of(self, at) ==
    {k \in 1..Len(self.entries) : self.entries[k].parent = at}

\* self.entries[-1] raises IndexError when the TOC has no entry of its own;
\* the depth is incremented before that
begin_subsections(self) ==
    LET own == entries_of(self, 0)
    IN [toc |-> [self EXCEPT !.depth = @ + 1,
                             !.new_entries_at =
                                 IF own = {} THEN @
                                 ELSE CHOOSE k \in own :
                                          \A j \in own : j <= k],
        raised |-> IF own = {} THEN "IndexError" ELSE None]

\* the TOC object has no attribute parent: AttributeError when the entries
\* are added to the TOC itself; the depth is decremented before that
end_subsections(self) ==
    [toc |-> [self EXCEPT !.depth = @ - 1,
                          !.new_entries_at =
                              IF @ = 0 THEN @ ELSE self.entries[@].parent],
     raised |-> IF self.new_entries_at = 0 THEN "AttributeError" ELSE None]

(***************************************************************************)
(* EpubBuilder, as far as the parser drives it.  The operators take and    *)
(* return a call frame w: w.b is the builder, w.raised the exception in    *)
(* flight (None when there is none).  content is a sequence of tokens;     *)
(* the attributes written into start tags are left out of it.              *)
(***************************************************************************)
\* files is the archive: the names given to writestr, in order, a part
\* being named by its number; closed: the archive is closed; filelist is
\* self.opf.filelist, the files of the manifest and the spine
File(name, no) == [name |-> name, no |-> no]

EpubBuilder ==
    [toc |-> TOC, par_h |-> <<>>, content |-> <<>>, part_no |-> 0,
     files |-> <<File("mimetype", 0), File("META-INF/container.xml", 0)>>,
     closed |-> FALSE, finalized |-> FALSE,
     filelist |-> <<File("toc.ncx", 0), File("style.css", 0)>>]

MaxHeadingLevel == 6

\* 'h%d' % min(self.toc.depth, 6)
heading_tag(depth) ==
    <<"h1", "h2", "h3", "h4", "h5", "h6">>[
        IF depth < MaxHeadingLevel THEN depth ELSE MaxHeadingLevel]

write(w, toks) == [w EXCEPT !.b.content = @ \o toks]

\* self.epub_f.writestr: ValueError once the archive is closed
writestr(w, name, no) ==
    IF w.raised # None THEN w
    ELSE IF w.b.closed THEN [w EXCEPT !.raised = "ValueError"]
    ELSE [w EXCEPT !.b.files = Append(@, File(name, no))]

\* an element that has been inserted into its own children holds SelfRef
\* at the place of that child
SelfRef == [ref |-> "self"]

\* self._heading(self.par_h) inside try ... except AttributeError: pass.
\* With a paragraph heading waiting, _heading merges the element with
\* itself and inserts it into its own children (epub.py line 598); the loop
\* over the children then never ends and RecursionError leaves the call.
heading_of_par_h(w) ==
    IF w.b.par_h = <<>> THEN w
    ELSE LET par_h == w.b.par_h[1]
             toc_text == text(par_h) \o <<".", " ">> \o text(par_h)
         IN [w EXCEPT !.b.par_h = <<>>,
                      !.b.toc = new_entry(@, toc_text, w.b.part_no),
                      !.headed = Append(@, [par_h EXCEPT
                          !.tag = "div",
                          !.attrs.class = "getebook-chapter-h",
                          !.children = <<SelfRef>> \o @]),
                      !.raised = "RecursionError"]

RECURSIVE handle_elem(_, _)
RECURSIVE handle_children(_, _)
RECURSIVE heading(_, _)

\* EpubBuilder._heading(elem) for an element handed over by handle_elem
heading(w, elem) ==
    LET merged == w.b.par_h # <<>>
        par_h == [w.b.par_h[1] EXCEPT !.tag = "div",
                                      !.attrs.class = "getebook-small-h"]
        toc_text == IF merged
                    THEN text(w.b.par_h[1]) \o <<".", " ">> \o text(elem)
                    ELSE text(elem)
        children == IF merged THEN <<par_h>> \o elem.children
                    ELSE elem.children
        tag == heading_tag(w.b.toc.depth)
        w1 == [w EXCEPT !.b.par_h = <<>>,
                        !.b.toc = new_entry(@, toc_text, w.b.part_no),
                        !.headed = Append(@, [elem EXCEPT
                            !.attrs.class = "getebook-chapter-h",
                            !.children = children])]
        w2 == handle_children(write(w1, <<"<", tag, ">">>), children)
    IN IF w2.raised # None THEN w2
       ELSE write(w2, <<"</", tag, ">", "\n">>)

handle_children(w, cs) ==
    IF cs = <<>> \/ w.raised # None THEN w
    ELSE handle_children(handle_elem(w, Head(cs)), Tail(cs))

handle_elem(w, elem) ==
    IF IsElem(elem) /\ elem.tag \in headings THEN heading(w, elem)
    ELSE LET w1 == heading_of_par_h(w)
         IN IF w1.raised # None THEN w1
            ELSE IF ~IsElem(elem) THEN write(w1, elem.str)
            ELSE IF elem.tag = "br" THEN write(w1, <<"<br />", "\n">>)
            ELSE IF elem.tag = "img" THEN write(w1, <<"alt", "\n">>)
            ELSE IF elem.tag \in {"a", "noscript"}
                 THEN handle_children(w1, elem.children)
            ELSE LET w2 == handle_children(
                               write(w1, <<"<", elem.tag, ">">>),
                               elem.children)
                 IN IF w2.raised # None THEN w2
                    ELSE write(w2, <<"</", elem.tag, ">">>
                                   \o (IF elem.tag = "p" THEN <<"\n">>
                                       ELSE <<>>))

false_heading(w, elem) ==
    handle_elem(w, [elem EXCEPT !.attrs.class = "getebook-false-h",
                                !.tag = "p"])

par_heading(w, elem) == [w EXCEPT !.b.par_h = <<elem>>]

\* a variant of new_part that keeps the content of the part written
new_part_keeps_content(w) ==
    LET w1 == heading_of_par_h(w)
        w2 == IF w1.b.content # <<>> THEN writestr(w1, "part", w1.b.part_no)
              ELSE w1
        no == IF w2.b.content # <<>> THEN w2.b.part_no + 1 ELSE w2.b.part_no
    IN IF w2.raised # None THEN w2
       ELSE [w2 EXCEPT !.b.part_no = no,
                       !.b.filelist = Append(@, File("part", no))]

\* the part is written to the archive and the next one begins
new_part(w) ==
    LET w1 == heading_of_par_h(w)
        w2 == IF w1.b.content # <<>> THEN writestr(w1, "part", w1.b.part_no)
              ELSE w1
        no == IF w2.b.content # <<>> THEN w2.b.part_no + 1 ELSE w2.b.part_no
    IN IF w2.raised # None THEN w2
       ELSE [w2 EXCEPT !.b.part_no = no,
                       !.b.content = <<>>,
                       !.b.filelist = Append(@, File("part", no))]

\* headingpage(heading), heading_text being the heading: a part that holds
\* the heading and nothing else, with an entry in the table of contents
headingpage(w, heading_text) ==
    LET w1 == new_part(w)
        tag == heading_tag(w1.b.toc.depth)
        w2 == write(w1, <<"<div>", "<", tag, ">">> \o heading_text
                        \o <<"</", tag, ">", "\n">>)
        w3 == [w2 EXCEPT !.b.toc = new_entry(@, heading_text, w2.b.part_no)]
    IN IF w1.raised # None THEN w1 ELSE new_part(w3)

\* what finalize does when the builder is not finalized
finalize_once(w) ==
    LET w1 == heading_of_par_h(w)
        w2 == IF w1.b.content # <<>> THEN writestr(w1, "part", w1.b.part_no)
              ELSE w1
        w3 == writestr(writestr(writestr(w2, "package.opf", 0),
                                "toc.ncx", 0), "style.css", 0)
    IN IF w3.raised # None THEN w3
       ELSE [w3 EXCEPT !.b.closed = TRUE, !.b.finalized = TRUE]

\* a variant of finalize that does not look at _finalized
finalize_unguarded(w) == finalize_once(w)

finalize(w) == IF w.b.finalized THEN w ELSE finalize_once(w)

\* __exit__: finalize(), and the archive is closed whether it raises or not
exit(w) == [finalize(w) EXCEPT !.b.closed = TRUE]

(***************************************************************************)
(* EbookParser.  The configuration: the element holding the content is     *)
(* div with class book, the link to the next part starts with N.           *)
(***************************************************************************)
root_check == Pattern(<<{"div"}>>, <<{"book"}>>, <<>>, <<>>, <<>>)

next_re == re_compile(<<"N">>)

\* the instance after __init__, whose call of HTMLParser.__init__ runs reset();
\* base is the attribute set by a base tag: <<>> while it does not exist
EbookParser ==
    [in_content |-> FALSE, in_anchor |-> FALSE, next_part |-> None,
     elem_stack |-> <<>>, last_void_tag |-> None, base |-> <<>>]

\* Python truth of next_part: None and the empty string are false
truthy(v) == v # None /\ v # ""

\* a variant of tracking that forgets the content flag
tracking_anchor_only(p) == p.in_anchor

\* the condition of handle_starttag and of the loop of handle_endtag
tracking(p) == p.in_content \/ p.in_anchor

\* a variant of warn that emits every warning twice
warn_twice(w, msg) == [w EXCEPT !.warns = Append(Append(@, msg), msg)]

warn(w, msg) == [w EXCEPT !.warns = Append(@, msg)]

\* the call frame of one event handler; headed is history: the elements
\* that _heading has written during the call, as the call left them
Frame(born) ==
    [p |-> parser, b |-> builder, raised |-> None, log |-> log,
     closes |-> 0, warns |-> <<>>, ret |-> None, born |-> born,
     headed |-> <<>>]

report(w, cb, arg) ==
    [w EXCEPT !.log = Append(@, [cb |-> cb, arg |-> arg,
                                 born |-> IF IsElem(arg) THEN arg.born
                                          ELSE w.born])]

\* the hand-over of a closed outermost element to the builder
dispatch(w, elem) ==
    IF elem.tag = "p" /\ test_par_heading(elem)
    THEN par_heading(report(w, "par_heading", elem), elem)
    ELSE IF elem.tag = "h"
         \* Quirks has no method test_false_h
         THEN [w EXCEPT !.raised = "AttributeError"]
    ELSE handle_elem(report(w, "handle_elem", elem), elem)

\* _close_elem; w.ret is the value returned
close_elem(w) ==
    IF w.p.elem_stack = <<>>
    THEN [w EXCEPT !.p.in_content = FALSE, !.p.in_anchor = FALSE,
                   !.ret = None, !.closes = @ + 1]
    ELSE LET elem == Last(w.p.elem_stack)
             w1 == [w EXCEPT !.p.elem_stack = Front(@), !.closes = @ + 1,
                             !.ret = elem.tag]
             w2 == IF w1.p.in_anchor /\ elem.tag = "a"
                      /\ re_match(next_re, text(elem))
                   THEN IF elem.attrs.href # NoAttr
                        THEN [w1 EXCEPT !.p.next_part = elem.attrs.href,
                                        !.p.in_anchor = FALSE]
                        ELSE [warn(w1, "no href") EXCEPT
                                        !.p.in_anchor = FALSE]
                   ELSE w1
         IN IF w2.p.in_content /\ ~test_skip(elem)
            THEN IF w2.p.elem_stack # <<>>
                 THEN [w2 EXCEPT !.p.elem_stack[Len(w2.p.elem_stack)] =
                                     add_child(@, elem)]
                 ELSE dispatch(w2, elem)
            ELSE w2

\* range(i+1) of handle_starttag, i the index from the bottom (0 first) of
\* the unclosed paragraph or heading in a stack of size s
unclosed_count(i, s) == i + 1

RECURSIVE close_unclosed(_, _)
close_unclosed(w, n) ==
    IF n = 0 \/ w.raised # None THEN w
    ELSE LET w1 == close_elem(w)
         IN close_unclosed(IF w1.raised # None THEN w1 ELSE warn(w1, w1.ret),
                           n - 1)

\* the indices (from 1) of the open paragraphs and headings
open_hp(stack) == {k \in 1..Len(stack) : stack[k].tag \in headings_and_p}

Max(S) == CHOOSE x \in S : \A y \in S : y <= x

handle_starttag(w, tag, attrs) ==
    IF tracking(w.p)
    THEN LET hp == open_hp(w.p.elem_stack)
             w1 == IF tag \in headings_and_p /\ hp # {}
                   THEN close_unclosed(w, unclosed_count(Max(hp) - 1,
                                                         Len(w.p.elem_stack)))
                   ELSE w
             w2 == [w1 EXCEPT !.p.elem_stack =
                                  Append(@, Element(tag, attrs, w.born))]
             w3 == close_elem(w2)
         IN IF w1.raised # None THEN w1
            ELSE IF tag \notin void_elems THEN w2
            ELSE IF w3.raised # None THEN w3
            ELSE [w3 EXCEPT !.p.last_void_tag = w3.ret]
    ELSE IF tag = "a" /\ ~truthy(w.p.next_part)
         THEN [w EXCEPT !.p.in_anchor = TRUE,
                        !.p.elem_stack =
                            Append(@, [Element(tag, attrs, w.born)
                                           EXCEPT !.scan = TRUE])]
    ELSE IF tag = "base"
         THEN IF attrs.href # NoAttr THEN [w EXCEPT !.p.base = <<attrs.href>>]
              ELSE w
    ELSE IF match_starttag(root_check, Element(tag, attrs, w.born))
         THEN [w EXCEPT !.p.in_content = TRUE]
    ELSE w

RECURSIVE close_missing_until_empty(_, _)
\* a variant of close_missing that stops as soon as the stack is empty
close_missing_until_empty(w, tag) ==
    IF /\ w.raised = None /\ tracking(w.p) /\ w.ret # tag
       /\ w.p.elem_stack # <<>>
    THEN close_missing_until_empty(close_elem(warn(w, w.ret)), tag)
    ELSE w

RECURSIVE close_missing(_, _)
\* the while loop of handle_endtag
close_missing(w, tag) ==
    IF w.raised = None /\ tracking(w.p) /\ w.ret # tag
    THEN close_missing(close_elem(warn(w, w.ret)), tag)
    ELSE w

\* a variant of handle_endtag that closes the top of the stack and no more
handle_endtag_once(w, tag) ==
    IF tag # w.p.last_void_tag
    THEN LET w1 == close_elem(w)
         IN IF w1.raised # None THEN w1
            ELSE [w1 EXCEPT !.p.last_void_tag = None]
    ELSE [w EXCEPT !.p.last_void_tag = None]

handle_endtag(w, tag) ==
    IF tag # w.p.last_void_tag
    THEN LET w1 == close_missing(close_elem(w), tag)
         IN IF w1.raised # None THEN w1
            ELSE [w1 EXCEPT !.p.last_void_tag = None]
    ELSE [w EXCEPT !.p.last_void_tag = None]

not_blank(l) == Len(l) > 0 /\ \E k \in 1..Len(l) : ~isspace(l[k])

\* the text handle_data keeps of data
\* a variant of normalize that keeps the data as they are
normalize_nothing(data) == data

normalize(data) ==
    LET lines == splitlines(data)
        kept == SelectSeq(lines, not_blank)
    IN join_lines([k \in 1..Len(kept) |-> strip(kept[k])])

handle_data(w, data) ==
    LET txt == normalize(data)
    IN IF txt = <<>> THEN w
       ELSE IF w.p.elem_stack # <<>>
            THEN [w EXCEPT !.p.elem_stack[Len(w.p.elem_stack)] =
                               add_child(@, [str |-> txt])]
       ELSE IF w.p.in_content
            THEN handle_elem(report(w, "handle_elem", [str |-> txt]),
                             [str |-> txt])
       ELSE w

reset(p) ==
    [p EXCEPT !.next_part = None, !.in_anchor = FALSE, !.in_content = FALSE,
              !.elem_stack = <<>>]

(***************************************************************************)
(* The tokenizer events.  region follows the document as the tokenizer     *)
(* sees it: before the start tag of the first element matching the root    *)
(* pattern, inside that element (depth counts the elements open in it),    *)
(* or after its end tag.                                                   *)
(***************************************************************************)
MaxEvents == 5
MaxAnchorEvents == 6
MaxDocEvents == 7
MaxHeadingEvents == 9
MaxCrawlEvents == 6
MaxTocCalls == 6
MaxCharLim == 1
MaxRules == 2
MaxLevel == 7
MaxSkipCalls == 3
MaxSinkCalls == 4
MaxTargetEvents == 6

Tag(tag, class, href) == [tag |-> tag, attrs |-> Attrs(class, href)]

StartInputs ==
    {Tag("a", NoAttr, NoAttr), Tag("a", NoAttr, "u"),
     Tag("div", "book", NoAttr), Tag("p", NoAttr, NoAttr),
     Tag("p", "ph", NoAttr), Tag("h1", "fh", NoAttr),
     Tag("br", NoAttr, NoAttr), Tag("script", NoAttr, NoAttr)}

EndInputs == {"a", "div", "p", "h1", "br", "script"}

DataInputs == {<<"N">>, <<" ", "x", "\n">>, <<" ", "\n">>}

\* documents of anchors, root elements and line breaks
AnchorStartInputs ==
    {Tag("a", NoAttr, NoAttr), Tag("a", NoAttr, "u"),
     Tag("div", "book", NoAttr), Tag("br", NoAttr, NoAttr)}

AnchorEndInputs == {"a", "div", "br"}

AnchorDataInputs == {<<"N">>}

\* well-formed documents
DocStartInputs ==
    {Tag("a", NoAttr, NoAttr), Tag("div", "book", NoAttr),
     Tag("p", "ph", NoAttr), Tag("h1", NoAttr, NoAttr),
     Tag("br", NoAttr, NoAttr)}

DocDataInputs == {<<"x">>}

\* well-formed documents of root elements, paragraph headings and headings
TocTextInputs == {<<"x">>, <<"y">>}

CrawlStartInputs ==
    {Tag("a", NoAttr, NoAttr), Tag("a", NoAttr, "u"),
     Tag("div", "book", NoAttr), Tag("br", NoAttr, NoAttr)}

CrawlEndInputs == {"a", "div"}

HeadingStartInputs ==
    {Tag("div", "book", NoAttr), Tag("p", "ph", NoAttr),
     Tag("h1", NoAttr, NoAttr)}

NoRegion == [phase |-> "before", depth |-> 0, root |-> None]

region_start(r, inp) ==
    IF r.phase = "before"
       /\ match_starttag(root_check, Element(inp.tag, inp.attrs, "before"))
    THEN [phase |-> "inside", depth |-> 0, root |-> inp.tag]
    ELSE IF r.phase = "inside" /\ inp.tag \notin void_elems
         THEN [r EXCEPT !.depth = @ + 1]
    ELSE r

\* an end tag closes an element open in the root element, or the root
\* element when none is open and the tag is the root's
region_end(r, tag) ==
    IF r.phase # "inside" \/ tag \in void_elems THEN r
    ELSE IF r.depth > 0 THEN [r EXCEPT !.depth = @ - 1]
    ELSE IF tag = r.root THEN [r EXCEPT !.phase = "after"]
    ELSE r

NoTagEvent == [kind |-> "none", tag |-> None]

\* what is remembered of an event: its kind and input, the number of
\* _close_elem calls and the warnings of its handler, and the last tag event
Event(kind, tag, attrs, w) ==
    [kind |-> kind, tag |-> tag, attrs |-> attrs, closes |-> w.closes,
     warns |-> w.warns,
     tagEv |-> IF kind = "data" THEN lastEv.tagEv
               ELSE [kind |-> kind, tag |-> tag],
     data |-> <<>>]

Returns(w) ==
    /\ parser' = w.p
    /\ builder' = w.b
    /\ raised' = w.raised
    /\ log' = w.log
    /\ nev' = nev + 1

\* getebook has not been called
NoCrawl == [path |-> None, pc |-> "none", anchors |-> "none"]

\* no call of _Pattern.match is modelled
NoCall == [pattern |-> <<>>, elem |-> <<>>, result |-> <<>>]

\* a new parser with a new builder
InitParser ==
    /\ parser = EbookParser
    /\ builder = EpubBuilder
    /\ raised = None
    /\ log = <<>>
    /\ nev = 0
    /\ lastEv = [kind |-> "init", tag |-> None, attrs |-> Attrs(NoAttr, NoAttr),
                 closes |-> 0, warns |-> <<>>, tagEv |-> NoTagEvent, data |-> <<>>]
    /\ region = NoRegion
    /\ doc = [open |-> <<>>, void |-> None, ended |-> FALSE]

Init ==
    /\ InitParser
    /\ crawl = NoCrawl
    /\ script = <<>>
    /\ registry = quirks
    /\ toc_calls = <<>>
    /\ call = NoCall

\* feed() delivers a start tag
Start(inp, max) ==
    /\ raised = None
    /\ nev < max
    /\ LET w == handle_starttag(Frame(region.phase), inp.tag, inp.attrs)
       IN /\ Returns(w)
          /\ lastEv' = Event("start", inp.tag, inp.attrs, w)
    /\ region' = region_start(region, inp)
    /\ UNCHANGED others

\* feed() delivers an end tag
End(tag, max) ==
    /\ raised = None
    /\ nev < max
    /\ LET w == handle_endtag(Frame(region.phase), tag)
       IN /\ Returns(w)
          /\ lastEv' = Event("end", tag, Attrs(NoAttr, NoAttr), w)
    /\ region' = region_end(region, tag)
    /\ UNCHANGED others

\* feed() delivers character data
Chars(data, max) ==
    /\ raised = None
    /\ nev < max
    /\ LET w == handle_data(Frame(region.phase), data)
       IN /\ Returns(w)
          /\ lastEv' = [Event("data", None, Attrs(NoAttr, NoAttr), w)
                            EXCEPT !.data = data]
    /\ UNCHANGED <<region, others>>

\* the end of a document: getebook calls reset() after feed()
ResetParser(max) ==
    /\ raised = None
    /\ nev < max
    /\ parser' = reset(parser)
    /\ nev' = nev + 1
    /\ lastEv' = [kind |-> "reset", tag |-> None,
                  attrs |-> Attrs(NoAttr, NoAttr), closes |-> 0,
                  warns |-> <<>>, tagEv |-> NoTagEvent, data |-> <<>>]
    /\ region' = NoRegion
    /\ UNCHANGED <<builder, raised, log, others>>

(***************************************************************************)
(* Spec: any sequence of events, of at most MaxEvents events.              *)
(***************************************************************************)
StartTag == \E inp \in StartInputs : Start(inp, MaxEvents)
        /\ UNCHANGED <<doc, crawl>>

EndTag == \E tag \in EndInputs : End(tag, MaxEvents)
        /\ UNCHANGED <<doc, crawl>>

Data == \E data \in DataInputs : Chars(data, MaxEvents)
        /\ UNCHANGED <<doc, crawl>>

Reset == ResetParser(MaxEvents) /\ UNCHANGED <<doc, crawl>>

Next == StartTag \/ EndTag \/ Data \/ Reset

Spec == Init /\ [][Next]_vars

(***************************************************************************)
(* SpecAnchor: any sequence of at most MaxAnchorEvents events of documents *)
(* made of anchors, root elements and line breaks.                         *)
(***************************************************************************)
AnchorStartTag ==
    \E inp \in AnchorStartInputs : Start(inp, MaxAnchorEvents)
        /\ UNCHANGED <<doc, crawl>>

AnchorEndTag ==
    \E tag \in AnchorEndInputs : End(tag, MaxAnchorEvents)
        /\ UNCHANGED <<doc, crawl>>

AnchorData ==
    \E data \in AnchorDataInputs : Chars(data, MaxAnchorEvents)
        /\ UNCHANGED <<doc, crawl>>

AnchorReset ==
    ResetParser(MaxAnchorEvents) /\ UNCHANGED <<doc, crawl>>

NextAnchor == AnchorStartTag \/ AnchorEndTag \/ AnchorData \/ AnchorReset

SpecAnchor == Init /\ [][NextAnchor]_vars

(***************************************************************************)
(* SpecDoc: one well-formed document of at most MaxDocEvents events.  Each *)
(* end tag closes the element opened last, or the void element whose start *)
(* tag came just before it; the document ends when no element is open.     *)
(***************************************************************************)
DocStartTag ==
    \E inp \in DocStartInputs :
        /\ ~doc.ended
        /\ Start(inp, MaxDocEvents)
        /\ doc' = IF inp.tag \in void_elems THEN [doc EXCEPT !.void = inp.tag]
                  ELSE [doc EXCEPT !.open = Append(@, inp.tag),
                                   !.void = None]
        /\ UNCHANGED crawl

DocEndTag ==
    /\ ~doc.ended
    /\ doc.void = None
    /\ doc.open # <<>>
    /\ End(Last(doc.open), MaxDocEvents)
    /\ doc' = [doc EXCEPT !.open = Front(@)]
    /\ UNCHANGED crawl

DocEndVoid ==
    /\ ~doc.ended
    /\ doc.void # None
    /\ End(doc.void, MaxDocEvents)
    /\ doc' = [doc EXCEPT !.void = None]
    /\ UNCHANGED crawl

DocData ==
    \E data \in DocDataInputs :
        /\ ~doc.ended
        /\ Chars(data, MaxDocEvents)
        /\ doc' = [doc EXCEPT !.void = None]
        /\ UNCHANGED crawl

\* feed() returns
DocEnd ==
    /\ ~doc.ended
    /\ raised = None
    /\ doc.open = <<>>
    /\ doc' = [doc EXCEPT !.ended = TRUE, !.void = None]
    /\ UNCHANGED <<parser, builder, raised, log, nev, lastEv, region, crawl,
                   others>>

NextDoc == DocStartTag \/ DocEndTag \/ DocEndVoid \/ DocData \/ DocEnd

SpecDoc == Init /\ [][NextDoc]_vars

(***************************************************************************)
(* SpecHeading: one well-formed document of at most MaxHeadingEvents       *)
(* events, made of root elements, paragraph headings, headings and text,   *)
(* in which paragraphs and headings hold nothing but text.                 *)
(***************************************************************************)
HeadingStartTag ==
    \E inp \in HeadingStartInputs :
        /\ ~doc.ended
        /\ doc.open # <<>> => Last(doc.open) \notin headings_and_p
        /\ Start(inp, MaxHeadingEvents)
        /\ doc' = [doc EXCEPT !.open = Append(@, inp.tag)]
        /\ UNCHANGED crawl

HeadingEndTag ==
    /\ ~doc.ended
    /\ doc.open # <<>>
    /\ End(Last(doc.open), MaxHeadingEvents)
    /\ doc' = [doc EXCEPT !.open = Front(@)]
    /\ UNCHANGED crawl

HeadingData ==
    \E data \in DocDataInputs :
        /\ ~doc.ended
        /\ Chars(data, MaxHeadingEvents)
        /\ UNCHANGED <<doc, crawl>>

NextHeading == HeadingStartTag \/ HeadingEndTag \/ HeadingData \/ DocEnd

SpecHeading == Init /\ [][NextHeading]_vars

(***************************************************************************)
(* SpecCrawl: getebook.  Its loop fetches the page at path, begins a new   *)
(* part, feeds the page to the parser event by event (at most              *)
(* MaxCrawlEvents events in all), takes the next path from next_part and   *)
(* resets the parser.  crawl.anchors is history, of the document fed       *)
(* last: "warned" once an anchor that matches the pattern of the next link  *)
(* but has no href was closed, "followed" once an anchor start tag came    *)
(* after that.                                                             *)
(***************************************************************************)
InitCrawl ==
    /\ InitParser
    /\ crawl = [path |-> "s", pc |-> "loop", anchors |-> "none"]
    /\ script = <<>>
    /\ registry = quirks
    /\ toc_calls = <<>>
    /\ call = NoCall

anchors_after(kind, tag) ==
    IF "no href" \in {lastEv'.warns[k] : k \in 1..Len(lastEv'.warns)}
    THEN "warned"
    ELSE IF crawl.anchors = "warned" /\ kind = "start" /\ tag = "a"
         THEN "followed"
    ELSE crawl.anchors

\* requests.get answers with an error: PageNotFound
CrawlNotFound ==
    /\ crawl.pc = "loop" /\ truthy(crawl.path) /\ raised = None
    /\ raised' = "PageNotFound"
    /\ UNCHANGED <<parser, builder, log, nev, lastEv, region, doc, crawl,
                   others>>

\* requests.get answers with the page: self.builder.new_part()
CrawlFetch ==
    /\ crawl.pc = "loop" /\ truthy(crawl.path) /\ raised = None
    /\ LET w == new_part(report(Frame(region.phase), "new_part",
                                [str |-> <<>>]))
       IN /\ builder' = w.b
          /\ raised' = w.raised
          /\ log' = w.log
    /\ crawl' = [crawl EXCEPT !.pc = "feed", !.anchors = "none"]
    /\ UNCHANGED <<parser, nev, lastEv, region, doc, others>>

CrawlStartTag ==
    \E inp \in CrawlStartInputs :
        /\ crawl.pc = "feed"
        /\ Start(inp, MaxCrawlEvents)
        /\ crawl' = [crawl EXCEPT !.anchors = anchors_after("start", inp.tag)]
        /\ UNCHANGED doc

CrawlEndTag ==
    \E tag \in CrawlEndInputs :
        /\ crawl.pc = "feed"
        /\ End(tag, MaxCrawlEvents)
        /\ crawl' = [crawl EXCEPT !.anchors = anchors_after("end", tag)]
        /\ UNCHANGED doc

CrawlData ==
    \E data \in AnchorDataInputs :
        /\ crawl.pc = "feed"
        /\ Chars(data, MaxCrawlEvents)
        /\ UNCHANGED <<doc, crawl>>

\* feed() returns: path = self.next_part; self.reset()
CrawlEnd ==
    /\ crawl.pc = "feed" /\ raised = None
    /\ crawl' = [crawl EXCEPT !.path = parser.next_part, !.pc = "loop"]
    /\ parser' = reset(parser)
    /\ lastEv' = [kind |-> "reset", tag |-> None,
                  attrs |-> Attrs(NoAttr, NoAttr), closes |-> 0,
                  warns |-> <<>>, tagEv |-> NoTagEvent, data |-> <<>>]
    /\ region' = NoRegion
    /\ UNCHANGED <<builder, raised, log, nev, doc, others>>

\* while path: the path is None or empty, getebook returns
CrawlStop ==
    /\ crawl.pc = "loop" /\ ~truthy(crawl.path) /\ raised = None
    /\ crawl' = [crawl EXCEPT !.pc = "done"]
    /\ UNCHANGED <<parser, builder, raised, log, nev, lastEv, region, doc,
                   others>>

NextCrawl ==
    \/ CrawlNotFound \/ CrawlFetch \/ CrawlStartTag \/ CrawlEndTag
    \/ CrawlData \/ CrawlEnd \/ CrawlStop

SpecCrawl == InitCrawl /\ [][NextCrawl]_vars

(***************************************************************************)
(* SpecTOC: at most MaxTocCalls calls of new_entry, begin_subsections and  *)
(* end_subsections on the table of contents of a builder.  toc_calls is    *)
(* history: for each begin_subsections call that no end_subsections call   *)
(* has matched yet, the insertion node and the depth before it and the     *)
(* entries that node had.                                                  *)
(***************************************************************************)
TocNewEntry ==
    \E txt \in TocTextInputs :
        /\ raised = None /\ nev < MaxTocCalls
        /\ builder' = [builder EXCEPT !.toc = new_entry(@, txt, 0)]
        /\ nev' = nev + 1
        /\ UNCHANGED <<parser, raised, log, lastEv, region, doc, crawl,
                       script, registry, toc_calls, call>>

TocBegin ==
    /\ raised = None /\ nev < MaxTocCalls
    /\ LET r == begin_subsections(builder.toc)
       IN /\ builder' = [builder EXCEPT !.toc = r.toc]
          /\ raised' = r.raised
    /\ toc_calls' = Append(toc_calls,
                           [at |-> builder.toc.new_entries_at,
                            depth |-> builder.toc.depth,
                            entries |-> entries_of(builder.toc,
                                           builder.toc.new_entries_at)])
    /\ nev' = nev + 1
    /\ UNCHANGED <<parser, log, lastEv, region, doc, crawl, script, registry,
                   call>>

TocEnd ==
    /\ raised = None /\ nev < MaxTocCalls
    /\ LET r == end_subsections(builder.toc)
       IN /\ builder' = [builder EXCEPT !.toc = r.toc]
          /\ raised' = r.raised
    /\ toc_calls' = IF toc_calls = <<>> THEN <<>> ELSE Front(toc_calls)
    /\ nev' = nev + 1
    /\ UNCHANGED <<parser, log, lastEv, region, doc, crawl, script, registry,
                   call>>

NextTOC == TocNewEntry \/ TocBegin \/ TocEnd

SpecTOC == Init /\ [][NextTOC]_vars

(***************************************************************************)
(* SpecScenario: the document <div class="book"><h1>Intro</h1>             *)
(* <p>Text.</p></div>, fed event by event.  script is the sequence of its  *)
(* events: those of Scenario, with or without white space between any two  *)
(* of them, before the first and after the last.                           *)
(***************************************************************************)
StartEvent(tag, class) ==
    [kind |-> "start", tag |-> tag, attrs |-> Attrs(class, NoAttr),
     data |-> <<>>]

EndEvent(tag) ==
    [kind |-> "end", tag |-> tag, attrs |-> Attrs(NoAttr, NoAttr),
     data |-> <<>>]

DataEvent(data) ==
    [kind |-> "data", tag |-> None, attrs |-> Attrs(NoAttr, NoAttr),
     data |-> data]

Intro == <<"I", "n", "t", "r", "o">>

TextDot == <<"T", "e", "x", "t", ".">>

Scenario ==
    <<StartEvent("div", "book"), StartEvent("h1", NoAttr), DataEvent(Intro),
      EndEvent("h1"), StartEvent("p", NoAttr), DataEvent(TextDot),
      EndEvent("p"), EndEvent("div")>>

RECURSIVE weave(_, _, _)
\* the events evs, the k-th of them after a white space event if k is in
\* gaps; one more white space event at the end if the last index is
weave(evs, k, gaps) ==
    (IF k \in gaps THEN <<DataEvent(<<"\n", " ">>)>> ELSE <<>>)
    \o (IF evs = <<>> THEN <<>>
        ELSE <<Head(evs)>> \o weave(Tail(evs), k + 1, gaps))

ScenarioScripts ==
    {weave(Scenario, 1, gaps) : gaps \in SUBSET (1..(Len(Scenario) + 1))}

InitScenario ==
    /\ InitParser
    /\ crawl = NoCrawl
    /\ script \in ScenarioScripts
    /\ registry = quirks
    /\ toc_calls = <<>>
    /\ call = NoCall

ScenarioStartTag ==
    /\ nev < Len(script) /\ script[nev + 1].kind = "start"
    /\ Start(script[nev + 1], Len(script))
    /\ UNCHANGED <<doc, crawl>>

ScenarioEndTag ==
    /\ nev < Len(script) /\ script[nev + 1].kind = "end"
    /\ End(script[nev + 1].tag, Len(script))
    /\ UNCHANGED <<doc, crawl>>

ScenarioData ==
    /\ nev < Len(script) /\ script[nev + 1].kind = "data"
    /\ Chars(script[nev + 1].data, Len(script))
    /\ UNCHANGED <<doc, crawl>>

NextScenario == ScenarioStartTag \/ ScenarioEndTag \/ ScenarioData

SpecScenario == InitScenario /\ [][NextScenario]_vars

(***************************************************************************)
(* SpecMatch: one call of _Pattern.match, for a pattern made by            *)
(* _Pattern.__init__ from arguments that are None (<<>>) or set, and an    *)
(* element with or without class, id and text.                             *)
(***************************************************************************)
PatternInputs ==
    {Pattern(tag, class_val, id_val, text_re, char_lim) :
        tag \in {<<>>, <<{"p"}>>}, class_val \in {<<>>, <<{"ph"}>>},
        id_val \in {<<>>, <<{"i"}>>}, text_re \in {<<>>, << <<"N">> >>},
        char_lim \in {<<>>} \cup {<<n>> : n \in 0..MaxCharLim}}

ElementInputs ==
    {LET e == Element(tag, [Attrs(class, NoAttr) EXCEPT !.id = id], "before")
     IN IF txt = <<>> THEN e ELSE add_child(e, [str |-> txt]) :
        tag \in {"p", "h1"}, class \in {NoAttr, "ph", "c"},
        id \in {NoAttr, "i"},
        txt \in {<<>>, <<"N">>, <<"N", "x">>, <<"x">>}}

InitMatch ==
    /\ InitParser
    /\ crawl = NoCrawl
    /\ script = <<>>
    /\ registry = quirks
    /\ toc_calls = <<>>
    /\ \E pattern \in PatternInputs, elem \in ElementInputs :
           call = [pattern |-> <<pattern>>, elem |-> <<elem>>,
                   result |-> <<>>]

Match ==
    /\ call.result = <<>>
    /\ call' = [call EXCEPT
                    !.result = <<match(call.pattern[1], call.elem[1])>>]
    /\ UNCHANGED <<parser, builder, raised, log, nev, lastEv, region, doc,
                   crawl, script, registry, toc_calls>>

NextMatch == Match

SpecMatch == InitMatch /\ [][NextMatch]_vars

(***************************************************************************)
(* SpecQuirks: at most MaxRules calls of Quirks.false_heading on a new     *)
(* Quirks instance, with the level None, or from -1 to MaxLevel.           *)
(***************************************************************************)
LevelInputs == {<<>>} \cup {<<n>> : n \in (-1)..MaxLevel}

InitQuirks ==
    /\ InitParser
    /\ crawl = NoCrawl
    /\ script = <<>>
    /\ registry = Quirks
    /\ toc_calls = <<>>
    /\ call = NoCall

FalseHeading ==
    \E class_val \in {<<>>, <<{"fh"}>>}, level \in LevelInputs :
        /\ raised = None /\ nev < MaxRules
        /\ LET r == quirks_false_heading(registry, class_val, <<>>, <<>>,
                                         level)
           IN /\ registry' = r.q
              /\ raised' = r.raised
        /\ lastEv' = [kind |-> "false_heading", class_val |-> class_val,
                      level |-> level]
        /\ nev' = nev + 1
        /\ UNCHANGED <<parser, builder, log, region, doc, crawl, script,
                       toc_calls, call>>

NextQuirks == FalseHeading

SpecQuirks == InitQuirks /\ [][NextQuirks]_vars

(***************************************************************************)
(* SpecSkip: at most MaxSkipCalls calls of skip and test_skip on a Quirks  *)
(* instance made with any arguments.                                       *)
(***************************************************************************)
SkipElementInputs ==
    {Element(tag, Attrs(class, NoAttr), "inside") :
        tag \in {"p", "h1", "script", "nav"}, class \in {NoAttr, "ad"}}

InitSkip ==
    /\ InitParser
    /\ crawl = NoCrawl
    /\ script = <<>>
    /\ \E noscript \in BOOLEAN, nohtml5 \in BOOLEAN :
           registry = Quirks_init(noscript, nohtml5)
    /\ toc_calls = <<>>
    /\ call = NoCall

QuirksSkip ==
    \E tag \in {<<>>, <<{"p"}>>, <<{"h*"}>>}, class_val \in {<<>>, <<{"ad"}>>} :
        /\ raised = None /\ nev < MaxSkipCalls
        /\ LET r == quirks_skip(registry, tag, class_val, <<>>, <<>>, <<>>)
           IN /\ registry' = r.q
              /\ raised' = r.raised
        /\ lastEv' = [kind |-> "skip", tag |-> tag, class_val |-> class_val]
        /\ nev' = nev + 1
        /\ UNCHANGED <<parser, builder, log, region, doc, crawl, script,
                       toc_calls, call>>

QuirksTestSkip ==
    \E elem \in SkipElementInputs :
        /\ raised = None /\ nev < MaxSkipCalls
        /\ LET r == quirks_test_skip(registry, elem)
           IN /\ raised' = r.raised
              /\ lastEv' = [kind |-> "test_skip", elem |-> elem,
                            ret |-> r.ret]
        /\ nev' = nev + 1
        /\ UNCHANGED <<parser, builder, log, region, doc, crawl, script,
                       registry, toc_calls, call>>

NextSkip == QuirksSkip \/ QuirksTestSkip

SpecSkip == InitSkip /\ [][NextSkip]_vars

(***************************************************************************)
(* SpecSink: at most MaxSinkCalls calls on a new EpubBuilder, of the       *)
(* methods the parser calls (par_heading, handle_elem, new_part), of       *)
(* headingpage, finalize and __exit__.  The elements are a paragraph       *)
(* heading, a heading and a paragraph, each holding a text, and a text.    *)
(***************************************************************************)
TextElement(tag, class, txt) ==
    add_child(Element(tag, Attrs(class, NoAttr), "inside"), [str |-> txt])

SinkParHeadingInputs ==
    {TextElement("p", "ph", <<"x">>), TextElement("p", "ph", <<"w">>)}

SinkElemInputs ==
    {TextElement("h1", NoAttr, <<"y">>), TextElement("p", NoAttr, <<"z">>),
     [str |-> <<"t">>]}

\* one call on the builder: its frame is unpacked, the call and what
\* _heading wrote during it are remembered
SinkCall(cb, arg, w) ==
    /\ builder' = w.b
    /\ raised' = w.raised
    /\ log' = Append(log, [cb |-> cb, arg |-> arg, born |-> "inside"])
    /\ lastEv' = [kind |-> cb, arg |-> arg, headed |-> w.headed]
    /\ nev' = nev + 1
    /\ UNCHANGED <<parser, region, doc, crawl, others>>

SinkParHeading ==
    \E elem \in SinkParHeadingInputs :
        /\ raised = None /\ nev < MaxSinkCalls
        /\ SinkCall("par_heading", elem, par_heading(Frame("inside"), elem))

SinkHandleElem ==
    \E elem \in SinkElemInputs :
        /\ raised = None /\ nev < MaxSinkCalls
        /\ SinkCall("handle_elem", elem, handle_elem(Frame("inside"), elem))

SinkNewPart ==
    /\ raised = None /\ nev < MaxSinkCalls
    /\ SinkCall("new_part", [str |-> <<>>], new_part(Frame("inside")))

SinkHeadingPage ==
    /\ raised = None /\ nev < MaxSinkCalls
    /\ SinkCall("headingpage", [str |-> <<"H">>],
                headingpage(Frame("inside"), <<"H">>))

SinkFinalize ==
    /\ raised = None /\ nev < MaxSinkCalls
    /\ SinkCall("finalize", [str |-> <<>>], finalize(Frame("inside")))

SinkExit ==
    /\ raised = None /\ nev < MaxSinkCalls
    /\ SinkCall("__exit__", [str |-> <<>>], exit(Frame("inside")))

NextSink ==
    \/ SinkParHeading \/ SinkHandleElem \/ SinkNewPart \/ SinkHeadingPage
    \/ SinkFinalize \/ SinkExit

SpecSink == Init /\ [][NextSink]_vars

(***************************************************************************)
(* SpecTarget: any sequence of at most MaxTargetEvents events of documents *)
(* made of anchors with the href u, v or the empty string, and of root     *)
(* elements, with resets between the documents.                            *)
(***************************************************************************)
TargetStartInputs ==
    {Tag("a", NoAttr, ""), Tag("a", NoAttr, "u"), Tag("a", NoAttr, "v"),
     Tag("div", "book", NoAttr)}

TargetEndInputs == {"a", "div"}

TargetStartTag ==
    \E inp \in TargetStartInputs : Start(inp, MaxTargetEvents)
        /\ UNCHANGED <<doc, crawl>>

TargetEndTag ==
    \E tag \in TargetEndInputs : End(tag, MaxTargetEvents)
        /\ UNCHANGED <<doc, crawl>>

TargetData ==
    \E data \in AnchorDataInputs : Chars(data, MaxTargetEvents)
        /\ UNCHANGED <<doc, crawl>>

TargetReset == ResetParser(MaxTargetEvents) /\ UNCHANGED <<doc, crawl>>

NextTarget == TargetStartTag \/ TargetEndTag \/ TargetData \/ TargetReset

SpecTarget == Init /\ [][NextTarget]_vars

(***************************************************************************)
(* Vocabulary of the properties                                            *)
(***************************************************************************)
stack == parser.elem_stack

Idle(p) == ~p.in_content /\ ~p.in_anchor

Tags(st) == [k \in 1..Len(st) |-> st[k].tag]

\* the elements and strings handed to the builder, in order
Reported == [k \in 1..Len(log) |-> log[k].arg]

TocTexts == [k \in 1..Len(builder.toc.entries) |-> builder.toc.entries[k].text]

IsHeading(node) == IsElem(node) /\ node.tag \in headings

IsParHeading(node) ==
    IsElem(node) /\ node.tag = "p" /\ test_par_heading(node)

\* the event of the step is a start tag / an end tag that is not swallowed
StartStep == lastEv'.kind = "start"

EndStep == lastEv'.kind = "end" /\ lastEv'.tag # parser.last_void_tag

RECURSIVE n_headings(_)
\* number of heading elements in the trees of a sequence of nodes
n_headings(ns) ==
    IF ns = <<>> THEN 0
    ELSE (IF IsHeading(Head(ns)) THEN 1 ELSE 0)
         + (IF IsElem(Head(ns)) THEN n_headings(Head(ns).children) ELSE 0)
         + n_headings(Tail(ns))

RECURSIVE n_par_headings(_)
\* number of paragraphs matching a paragraph-heading rule in the trees
n_par_headings(ns) ==
    IF ns = <<>> THEN 0
    ELSE (IF IsParHeading(Head(ns)) THEN 1 ELSE 0)
         + (IF IsElem(Head(ns)) THEN n_par_headings(Head(ns).children) ELSE 0)
         + n_par_headings(Tail(ns))

RECURSIVE merged_texts(_)
\* paragraph_text + ". " + heading_text of every matching paragraph that is
\* immediately followed by a heading, both holding text, at any depth of the
\* trees
merged_texts(ns) ==
    IF ns = <<>> THEN {}
    ELSE (IF /\ Len(ns) >= 2 /\ IsParHeading(ns[1]) /\ IsHeading(ns[2])
             /\ text(ns[1]) # <<>> /\ text(ns[2]) # <<>>
          THEN {text(ns[1]) \o <<".", " ">> \o text(ns[2])} ELSE {})
         \cup (IF IsElem(Head(ns)) THEN merged_texts(Head(ns).children)
               ELSE {})
         \cup merged_texts(Tail(ns))

\* the elements the configured skip rules describe: script elements and
\* the html5-only elements
IsSkipped(e) == e.tag = "script" \/ e.tag \in html5_only

RECURSIVE has_skipped(_)
\* some element of the trees matches a skip rule
has_skipped(ns) ==
    IF ns = <<>> THEN FALSE
    ELSE \/ IsElem(Head(ns))
            /\ (IsSkipped(Head(ns)) \/ has_skipped(Head(ns).children))
         \/ has_skipped(Tail(ns))

RECURSIVE n_chars(_)
\* number of characters of the strings in the trees
n_chars(ns) ==
    IF ns = <<>> THEN 0
    ELSE (IF IsElem(Head(ns)) THEN n_chars(Head(ns).children)
          ELSE Len(Head(ns).str))
         + n_chars(Tail(ns))

RECURSIVE lengths_cached(_)
\* every element of the trees caches the number of characters below it
lengths_cached(ns) ==
    IF ns = <<>> THEN TRUE
    ELSE /\ IsElem(Head(ns)) =>
                /\ Head(ns).text_len = n_chars(Head(ns).children)
                /\ lengths_cached(Head(ns).children)
         /\ lengths_cached(Tail(ns))

RECURSIVE all_born_inside(_)
\* every element of the trees was opened inside the root element
all_born_inside(ns) ==
    IF ns = <<>> THEN TRUE
    ELSE /\ IsElem(Head(ns)) =>
                /\ Head(ns).born = "inside"
                /\ all_born_inside(Head(ns).children)
         /\ all_born_inside(Tail(ns))

(***************************************************************************)
(* The properties                                                          *)
(***************************************************************************)

\* C1: in every reachable state, after any sequence of start-tag, end-tag,
\* text and reset events, in_content and in_anchor are never both true.
C1_FlagsExclusive == ~(parser.in_content /\ parser.in_anchor)

\* C1, the case: an anchor start tag has arrived inside the content region
\* and the anchor was pushed as an ordinary element
C1_AnchorInContent ==
    /\ parser.in_content
    /\ lastEv.kind = "start" /\ lastEv.tag = "a"
    /\ stack # <<>> /\ Last(stack).tag = "a"

\* C2: at the end of every well-formed document the open-element stack is
\* empty and both mode flags are false.
C2_WellFormedEndsIdle == doc.ended => stack = <<>> /\ Idle(parser)

\* C3: a paragraph matching a paragraph-heading rule and immediately
\* followed by a heading, at the top level of the content region or nested
\* in another tracked element, yields exactly one entry in the table of
\* contents, with the text paragraph_text + ". " + heading_text.  Stated for
\* the documents that hold one such paragraph and one heading, both with
\* text.
C3_MergedHeading ==
    (/\ n_headings(Reported) = 1
     /\ n_par_headings(Reported) = 1
     /\ merged_texts(Reported) # {})
    => \A t \in merged_texts(Reported) : TocTexts = <<t>>

\* C4: an element that matches a skip rule when it is closed in content is
\* neither appended to the element below it nor reported, so no reported
\* tree and no open element holds such an element, and every cached text
\* length counts exactly the characters of the strings that are kept.
C4_SkipExcluded ==
    [][/\ (/\ EndStep /\ parser.in_content /\ stack # <<>>
           /\ Last(stack).tag = lastEv'.tag /\ IsSkipped(Last(stack)))
          => /\ parser'.elem_stack = Front(stack)
             /\ log' = log /\ builder' = builder
       /\ \A k \in 1..Len(parser'.elem_stack) :
              ~has_skipped(parser'.elem_stack[k].children)
       /\ ~has_skipped([k \in 1..Len(log') |-> log'[k].arg])
       /\ lengths_cached(parser'.elem_stack)
       /\ lengths_cached([k \in 1..Len(log') |-> log'[k].arg])]_vars

\* C4, the case: the end tag of a script element has closed it, in content,
\* above another open element
C4_ScriptClosed ==
    /\ lastEv.kind = "end" /\ lastEv.tag = "script"
    /\ lastEv.closes = 1 /\ lastEv.warns = <<>>
    /\ parser.in_content /\ stack # <<>>

\* C5: after the start-tag event of a void tag no element with that tag is
\* on the stack; and an end tag naming the void tag of the previous tag
\* event emits no warning and changes nothing but the remembered void tag.
C5_VoidElements ==
    [][/\ (StartStep /\ lastEv'.tag \in void_elems)
          => \A k \in 1..Len(parser'.elem_stack) :
                 parser'.elem_stack[k].tag # lastEv'.tag
       /\ (/\ lastEv'.kind = "end" /\ lastEv'.tag \in void_elems
           /\ lastEv.tagEv = [kind |-> "start", tag |-> lastEv'.tag])
          => /\ lastEv'.warns = <<>>
             /\ parser' = [parser EXCEPT !.last_void_tag = None]
             /\ log' = log /\ builder' = builder]_vars

\* C6: a heading or paragraph start tag arriving in InContent or
\* InAnchorScan while the nearest open heading/paragraph is at index i (0 =
\* bottom) of a stack of size s closes exactly s - i elements, leaves the i
\* elements below open and then pushes the new element; the stack never
\* holds two open heading/paragraph elements.
C6_UnclosedParagraph ==
    [][/\ (/\ StartStep /\ lastEv'.tag \in headings_and_p
           /\ tracking(parser) /\ open_hp(stack) # {})
          => LET i == Max(open_hp(stack)) - 1
             IN /\ lastEv'.closes = Len(stack) - i
                /\ Tags(parser'.elem_stack)
                       = Append(Tags(SubSeq(stack, 1, i)), lastEv'.tag)
       /\ Cardinality(open_hp(parser'.elem_stack)) <= 1]_vars

\* C7 as claimed: an end tag arriving in InContent or InAnchorScan with
\* n >= 1 open elements none of which has its tag invokes the close
\* procedure exactly n times, and not again once the stack is empty.
C7_ClosesOncePerElement ==
    [][(/\ EndStep /\ tracking(parser) /\ stack # <<>>
        /\ \A k \in 1..Len(stack) : stack[k].tag # lastEv'.tag)
       => lastEv'.closes = Len(stack)]_vars

\* the indices of the open anchors whose text matches the next-link pattern
matching_anchors(st) ==
    {k \in 1..Len(st) : st[k].tag = "a" /\ re_match(next_re, text(st[k]))}

\* C7 as amended: such an end tag invokes the close procedure once per open
\* element and once more on the emptied stack, n + 1 times, and that last
\* call sets both mode flags false; it stops earlier only when, in
\* InAnchorScan, a popped anchor matches the next-link pattern (right after
\* that pop, the elements below still open) or when the builder raises
\* during a close.
C7_ClosesUntilIdle ==
    [][(/\ EndStep /\ tracking(parser) /\ stack # <<>>
        /\ \A k \in 1..Len(stack) : stack[k].tag # lastEv'.tag)
       => IF raised' # None
          THEN /\ parser.in_content
               /\ lastEv'.closes <= Len(stack)
               /\ Len(parser'.elem_stack) = Len(stack) - lastEv'.closes
          ELSE IF parser.in_anchor /\ matching_anchors(stack) # {}
          THEN LET m == Max(matching_anchors(stack))
               IN /\ lastEv'.closes = Len(stack) - m + 1
                  /\ parser'.elem_stack = SubSeq(stack, 1, m - 1)
                  /\ Idle(parser')
          ELSE /\ lastEv'.closes = Len(stack) + 1
               /\ parser'.elem_stack = <<>>
               /\ Idle(parser')]_vars

\* C7, the case: an end tag matching none of two or more open elements has
\* closed them all and has left the mode
C7_ClosedAll ==
    /\ lastEv.kind = "end"
    /\ lastEv.closes >= 3
    /\ Len(lastEv.warns) = lastEv.closes - 1
    /\ stack = <<>> /\ Idle(parser)

\* C8: a start tag matching the root pattern that arrives while the parser
\* is not in content and no anchor is open on the stack makes the parser
\* enter InContent, and the root element is not pushed.
C8_RootEntersContent ==
    [][(/\ StartStep
        /\ match_starttag(root_check,
                          Element(lastEv'.tag, lastEv'.attrs, "before"))
        /\ ~parser.in_content
        /\ \A k \in 1..Len(stack) : stack[k].tag # "a")
       => parser'.in_content /\ parser'.elem_stack = <<>>]_vars

\* C9: every element and every string reported to the builder was opened
\* inside the first element of the document that matches the root pattern.
C9_ReportedInsideRoot ==
    /\ \A k \in 1..Len(log) : log[k].born = "inside"
    /\ all_born_inside(Reported)

\* C10: a top-level heading element matching a false-heading rule is
\* reported through false_heading, not through handle_elem, and creates no
\* entry in the table of contents.
C10_FalseHeadingReported ==
    \A k \in 1..Len(log) :
        (IsHeading(log[k].arg) /\ test_false_heading(log[k].arg))
        => log[k].cb = "false_heading"

\* C11: when the end tag that closes an anchor opened for the scan of the
\* next link arrives, the text of the anchor matches the pattern of the
\* next link and the anchor has an href attribute, then the next part is
\* the value of that attribute and the parser has left InAnchorScan.
C11_NextPartIsHref ==
    [][(/\ EndStep /\ lastEv'.closes >= 1
        /\ stack # <<>> /\ Last(stack).tag = "a" /\ Last(stack).scan
        /\ re_match(next_re, text(Last(stack)))
        /\ Last(stack).attrs.href # NoAttr)
       => /\ parser'.next_part = Last(stack).attrs.href
          /\ ~parser'.in_anchor]_vars

\* the warnings of the last handler about a matching anchor without href
NoHrefWarnings == {k \in 1..Len(lastEv'.warns) : lastEv'.warns[k] = "no href"}

\* the end of a document in getebook
CrawlEndStep == crawl.pc = "feed" /\ crawl'.pc = "loop"

C13_ResetClears ==
    [][lastEv'.kind = "reset"
       => /\ parser'.elem_stack = <<>>
          /\ ~parser'.in_content /\ ~parser'.in_anchor
          /\ parser'.last_void_tag = None
          /\ parser'.next_part = None
          /\ parser'.base = parser.base
          /\ builder' = builder]_vars

toc == builder.toc

\* C14: the numbers of the entries of a TOC are 0, 1, 2, ... in the order
\* in which the entries were created, at whatever depth each was added.
C14_EntryNumbers ==
    \A k \in 1..Len(toc.entries) : toc.entries[k].no = k - 1

\* C14, the case: three entries or more, made at two depths or more
C14_EntriesAtDepths ==
    /\ Len(toc.entries) >= 3
    /\ \E j, k \in 1..Len(toc.entries) :
           toc.entries[j].parent # toc.entries[k].parent

\* C15: an end_subsections call that matches a begin_subsections call made
\* when the insertion node had an entry leaves the insertion node and the
\* depth as they were before that begin_subsections call.
C15_SubsectionsRestore ==
    [][(/\ toc_calls # <<>> /\ toc_calls' = Front(toc_calls)
        /\ Last(toc_calls).entries # {}
        /\ raised' = None)
       => /\ toc'.new_entries_at = Last(toc_calls).at
          /\ toc'.depth = Last(toc_calls).depth]_vars

\* C16: begin_subsections, at any depth, adds one to the depth and makes
\* the last entry of the insertion node the insertion node;
\* end_subsections takes one from the depth and makes the parent of the
\* insertion node the insertion node.
C16_SubsectionsRetarget ==
    [][/\ (/\ Len(toc_calls') = Len(toc_calls) + 1
           /\ entries_of(toc, toc.new_entries_at) # {})
          => /\ toc'.depth = toc.depth + 1
             /\ toc'.new_entries_at = Max(entries_of(toc, toc.new_entries_at))
       /\ (/\ nev' = nev + 1 /\ toc'.depth < toc.depth
           /\ toc.new_entries_at # 0)
          => /\ toc'.depth = toc.depth - 1
             /\ toc'.new_entries_at = toc.entries[toc.new_entries_at].parent
     ]_vars

\* C17: when the events of <div class="book"><h1>Intro</h1><p>Text.</p>
\* </div> have been fed, the builder has received two elements in this
\* order, the h1 with the text Intro, handled as a heading, and the p,
\* handled as a generic element; the TOC has one entry, with the text Intro
\* and the number 0; the parser is Idle and its stack is empty.
C17_IntroScenario ==
    nev = Len(script)
    => /\ raised = None
       /\ Len(log) = 2
       /\ log[1].cb = "handle_elem" /\ log[1].arg.tag = "h1"
       /\ text(log[1].arg) = Intro
       /\ log[2].cb = "handle_elem" /\ log[2].arg.tag = "p"
       /\ text(log[2].arg) = TextDot
       /\ builder.content =
              <<"<", "h1", ">">> \o Intro \o <<"</", "h1", ">", "\n">>
              \o <<"<", "p", ">">> \o TextDot \o <<"</", "p", ">", "\n">>
       /\ Len(toc.entries) = 1
       /\ toc.entries[1].text = Intro /\ toc.entries[1].no = 0
       /\ Idle(parser) /\ stack = <<>>

\* C17, the case: the eight events of the scenario, and no other, were fed
C17_ScenarioFed ==
    /\ script = Scenario /\ nev = Len(script)
    /\ Len(log) = 2 /\ Len(toc.entries) = 1

\* C18: a text event whose normalized text is empty changes nothing; a
\* text that is not empty becomes the last child of the top of the stack
\* when the stack is not empty; when the stack is empty it is reported to
\* the builder if the parser is InContent, and dropped otherwise, leaving
\* builder, stack and mode as they were.
C18_TextEvents ==
    [][lastEv'.kind = "data"
       => LET txt == normalize(lastEv'.data)
              same == parser' = parser /\ log' = log /\ builder' = builder
          IN IF txt = <<>> THEN same
             ELSE IF stack # <<>>
                  THEN /\ parser' = [parser EXCEPT
                             !.elem_stack[Len(stack)].children =
                                 Append(@, [str |-> txt]),
                             !.elem_stack[Len(stack)].text_len =
                                 parser'.elem_stack[Len(stack)].text_len]
                       /\ log' = log /\ builder' = builder
             ELSE IF parser.in_content
                  THEN /\ parser' = parser
                       /\ Len(log') = Len(log) + 1
                       /\ SubSeq(log', 1, Len(log)) = log
                       /\ Last(log').cb = "handle_elem"
                       /\ Last(log').arg = [str |-> txt]
             ELSE same]_vars

\* C18, the case: a text was reported to the builder from the empty stack
C18_TextReported ==
    /\ lastEv.kind = "data" /\ lastEv.data = <<" ", "x", "\n">>
    /\ parser.in_content /\ stack = <<>>
    /\ log # <<>> /\ Last(log).arg = [str |-> <<"x">>]

\* C19: _Pattern.match is true exactly when every field of the pattern
\* that is set holds of the element: the length of the text is at most the
\* limit (a limit of 0 admits the elements without text only), the tag is
\* among the tags, the class among the classes, the id among the ids, and
\* the regular expression matches the text; a field that is not set
\* rejects nothing.
C19_MatchIffAllSet ==
    call.result # <<>>
    => LET p == call.pattern[1]
           e == call.elem[1]
       IN call.result[1] =
              (/\ p.lim # <<>> => Len(text(e)) <= p.lim[1]
               /\ p.tag # <<>> => e.tag \in p.tag[1]
               /\ p.cls # <<>> => /\ e.attrs.class # NoAttr
                                  /\ e.attrs.class \in p.cls[1]
               /\ p.id # <<>> => /\ e.attrs.id # NoAttr
                                 /\ e.attrs.id \in p.id[1]
               /\ p.txt_re # <<>> => re_match(p.txt_re[1], text(e)))

\* C20: Quirks.false_heading with a level that is given and lies outside
\* 1..6 raises and leaves the false-heading rules as they were; with a
\* level in 1..6 it adds a rule for the tag h<level> and no other.
C20_FalseHeadingLevel ==
    [][lastEv'.kind = "false_heading"
       => LET level == lastEv'.level
          IN IF level # <<>> /\ level[1] \notin 1..6
             THEN raised' # None /\ registry'.false_h = registry.false_h
             ELSE /\ raised' = None
                  /\ Len(registry'.false_h) = Len(registry.false_h) + 1
                  /\ Front(registry'.false_h) = registry.false_h
                  /\ level # <<>>
                     => Last(registry'.false_h).tag
                            = <<{h_tag(level[1])}>>]_vars

\* the skip rules of a Quirks instance
skip_rules(q) == IF q.skip_elem = NoAttr THEN <<>> ELSE q.skip_elem

\* C21: a Quirks instance made with both default skip rules disabled has an
\* empty skip category: test_skip returns false for every element as long
\* as no rule was added, and skip adds its rule, neither raising.
C21_EmptySkipCategory ==
    [][(~registry.args.noscript /\ ~registry.args.nohtml5)
       => /\ lastEv'.kind = "test_skip"
             => /\ raised' = None
                /\ skip_rules(registry) = <<>> => lastEv'.ret = <<FALSE>>
          /\ lastEv'.kind = "skip"
             => /\ raised' = None
                /\ Len(skip_rules(registry')) = Len(skip_rules(registry)) + 1
      ]_vars

\* the number of new_part calls made on the builder
n_new_part == Cardinality({k \in 1..Len(log) : log[k].cb = "new_part"})

\* C22: in the loop of getebook a fetch that fails raises PageNotFound
\* before new_part is called and before any event is fed, leaving parser and
\* builder as they were; each page fetched gets one new_part call, made
\* before its first event, which begins an empty part and counts the part
\* written if there was content, and no event makes another; the loop goes
\* on with the next part read before the reset, and returns after the first
\* document that leaves it unset.
C22_CrawlLoop ==
    [][/\ (raised = None /\ raised' = "PageNotFound")
          => /\ builder' = builder /\ parser' = parser
             /\ log' = log /\ nev' = nev
       /\ (crawl.pc = "loop" /\ crawl'.pc = "feed")
          => /\ truthy(crawl.path)
             /\ nev' = nev /\ parser' = parser
             /\ Len(log') = Len(log) + 1 /\ Last(log').cb = "new_part"
             /\ builder'.content = <<>>
             /\ builder'.part_no = builder.part_no
                    + (IF builder.content # <<>> THEN 1 ELSE 0)
       /\ crawl.pc # "loop"
          => Cardinality({k \in 1..Len(log') : log'[k].cb = "new_part"})
                 = n_new_part
       /\ nev' # nev => crawl.pc = "feed" /\ crawl'.pc = "feed"
       /\ CrawlEndStep
          => /\ crawl'.path = parser.next_part
             /\ parser'.next_part = None /\ Idle(parser')
             /\ parser'.elem_stack = <<>>
       /\ (crawl.pc = "loop" /\ ~truthy(crawl.path) /\ crawl' # crawl)
          => crawl'.pc = "done"
       /\ crawl.pc = "done" => crawl'.pc = "done"]_vars

\* C22, the case: the loop has fetched two pages, the second found by a
\* link of the first, and has returned after the second, which has no link
C22_TwoPagesCrawled ==
    /\ crawl.pc = "done" /\ n_new_part = 2 /\ raised = None

\* the texts of the entries the step has added to the table of contents
new_toc_texts ==
    [k \in 1..(Len(builder'.toc.entries) - Len(toc.entries)) |->
        builder'.toc.entries[Len(toc.entries) + k].text]

\* C23: while a paragraph heading is waiting in a builder that is not
\* finalized, the next call on the builder completes and makes exactly one
\* entry in the table of contents for it: handle_elem of a heading makes
\* the entry of the merged heading, paragraph_text + ". " + heading_text;
\* handle_elem of another element or of a text, par_heading, new_part and
\* finalize make an entry whose text is the text of the paragraph, before
\* anything else they do.
C23_PendingParHeading ==
    [][(/\ builder.par_h # <<>> /\ ~builder.finalized /\ ~builder.closed
        /\ nev' = nev + 1 /\ lastEv'.kind # "headingpage")
       => LET par_h == builder.par_h[1]
              elem == lastEv'.arg
          IN /\ raised' = None
             /\ IF lastEv'.kind = "handle_elem" /\ IsHeading(elem)
                THEN new_toc_texts
                         = << text(par_h) \o <<".", " ">> \o text(elem) >>
                ELSE new_toc_texts = << text(par_h) >>
             /\ builder'.par_h = IF lastEv'.kind = "par_heading"
                                 THEN <<elem>> ELSE <<>>]_vars

RECURSIVE holds_itself(_)
\* the element is among its own children or descendants
holds_itself(elem) ==
    \E k \in 1..Len(elem.children) :
        \/ elem.children[k] = SelfRef
        \/ IsElem(elem.children[k]) /\ holds_itself(elem.children[k])

\* C24: the structures are trees: no element that the builder has written
\* as a heading is its own child or descendant, and every entry of the
\* table of contents hangs under one node made before it, the TOC or an
\* earlier entry, so that it is reached from the root exactly once.
C24_Trees ==
    /\ \A k \in 1..Len(toc.entries) :
           toc.entries[k].parent \in 0..(k - 1)
    /\ lastEv.kind \in {"handle_elem", "par_heading", "new_part",
                         "headingpage", "finalize", "__exit__"}
       => \A k \in 1..Len(lastEv.headed) : ~holds_itself(lastEv.headed[k])

\* C25: a finalize call on a builder that is finalized, made directly or
\* by __exit__, returns without raising, writes nothing to the archive and
\* leaves every field of the builder as it was.
C25_FinalizeIdempotent ==
    [][(/\ builder.finalized /\ nev' = nev + 1
        /\ lastEv'.kind \in {"finalize", "__exit__"})
       => raised' = None /\ builder' = builder]_vars

\* C25, the case: finalize was called on a builder with content, then
\* again, and then by __exit__
C25_FinalizedThrice ==
    /\ Len(log) = 4 /\ raised = None
    /\ log[1].cb = "handle_elem"
    /\ log[2].cb = "finalize" /\ log[3].cb = "finalize"
    /\ log[4].cb = "__exit__"
    /\ builder.finalized /\ builder.content # <<>>

\* the indices of the open elements with the tag
open_with(st, tag) == {k \in 1..Len(st) : st[k].tag = tag}

\* C26: an end tag arriving in InContent while the nearest open element
\* with its tag is the k-th from the top of the stack pops exactly k
\* elements and emits k - 1 warnings, one for each element popped above
\* that one and naming its tag, from the top down; the elements below stay
\* open and the parser stays InContent.
C26_MissingEndTags ==
    [][(/\ EndStep /\ parser.in_content
        /\ open_with(stack, lastEv'.tag) # {})
       => LET m == Max(open_with(stack, lastEv'.tag))
              k == Len(stack) - m + 1
          IN /\ lastEv'.closes = k
             /\ Tags(parser'.elem_stack) = Tags(SubSeq(stack, 1, m - 1))
             /\ lastEv'.warns
                    = [j \in 1..(k - 1) |-> stack[Len(stack) + 1 - j].tag]
             /\ parser'.in_content /\ ~parser'.in_anchor]_vars

\* C26, the case: an end tag has closed the second element from the top,
\* with one warning for the element above it, and the element below the
\* two stays open
C26_ClosedSecond ==
    /\ lastEv.kind = "end" /\ lastEv.closes = 2 /\ Len(lastEv.warns) = 1
    /\ parser.in_content /\ stack # <<>>

\* C27: once the next part is set in a document, no event but the reset
\* changes it and no anchor start tag starts the scan for the next link;
\* and no event that arrives in InContent sets it.
C27_TargetIsFinal ==
    [][lastEv'.kind # "reset"
       => /\ parser.next_part # None
             => /\ parser'.next_part = parser.next_part
                /\ ~parser'.in_anchor
          /\ parser.in_content
             => parser'.next_part = parser.next_part]_vars

\* C28: whenever the parser is Idle its stack is empty, so that the parser
\* enters InContent and InAnchorScan with an empty stack only.
C28_IdleStackEmpty ==
    [][/\ Idle(parser') => parser'.elem_stack = <<>>
       /\ (Idle(parser) /\ ~Idle(parser')) => stack = <<>>]_vars

\* C29: in InAnchorScan an element that is closed by its end tag inside
\* the open anchor is appended as a child of the element below it, so that
\* its text is part of the text of the anchor that is tested when the
\* anchor closes.  Stated for the elements that are no anchors and match
\* no skip rule.
C29_NestedInAnchor ==
    [][(/\ EndStep /\ parser.in_anchor /\ Len(stack) >= 2
        /\ Last(stack).tag = lastEv'.tag /\ lastEv'.tag # "a"
        /\ ~IsSkipped(Last(stack)))
       => /\ parser'.elem_stack =
                 [Front(stack) EXCEPT ![Len(stack) - 1] =
                      add_child(@, Last(stack))]
          /\ text(Last(parser'.elem_stack))
                 = text(stack[Len(stack) - 1]) \o text(Last(stack))]_vars

RECURSIVE text_len_exact(_)
\* every element of the trees caches the length of its text
text_len_exact(ns) ==
    IF ns = <<>> THEN TRUE
    ELSE /\ IsElem(Head(ns)) =>
                /\ Head(ns).text_len = Len(text(Head(ns)))
                /\ text_len_exact(Head(ns).children)
         /\ text_len_exact(Tail(ns))

\* C30: the cached text length of every element the parser has built, open
\* or reported, with its descendants, is the length of its text, line
\* break elements included; so an element that a pattern with a length
\* limit matches has a text no longer than the limit.
C30_TextLenIsLenOfText ==
    /\ text_len_exact(stack)
    /\ text_len_exact(Reported)
    /\ \A k \in 1..Len(log) :
           (log[k].cb = "par_heading" /\ IsElem(log[k].arg))
           => Len(text(log[k].arg)) <= DefaultCharLim

\* C31: after any sequence of calls on the builder, every content file,
\* part000.html, part001.html, ..., occurs at most once in the file list
\* of the OPF file, also after two new_part calls with no content between
\* them.
C31_PartsListedOnce ==
    \A j, k \in 1..Len(builder.filelist) :
        (/\ builder.filelist[j].name = "part"
         /\ builder.filelist[j] = builder.filelist[k])
        => j = k

====
